---- MODULE Spec2Model ----
(***************************************************************************)
(* Model of src/app.py, the Streamlit "Excel Surname Extractor" script.    *)
(*                                                                         *)
(* The script runs top to bottom once per request: it builds the surname   *)
(* list and target set, fixes the search columns (auto-detecting them      *)
(* from a peek into the first file when none are given), parses and        *)
(* matches every uploaded file, and finalizes the concatenated result.     *)
(*                                                                         *)
(* Text is modelled as sequences of one-character strings, so that         *)
(* str.strip, str.lower, splitting and containment are computed character  *)
(* by character.  File names and sheet names are opaque TLA+ strings.      *)
(***************************************************************************)
EXTENDS Integers, Sequences, FiniteSets, TLC

VARIABLES
    uploaded_surnames_file, \* st.file_uploader "surnames_uploader" (line 32)
    pasted,                 \* st.text_area "surnames_paste" (line 39)
    uploaded_files,         \* st.file_uploader "data_files" (line 83)
    search_cols_input,      \* st.text_input "search_cols" (line 89)
    exact_match,            \* checkbox (line 94)
    substring_match,        \* checkbox (line 95)
    match_last_token,       \* checkbox (line 96)
    streams,                \* read position of each data file's byte stream
    surnames_list,          \* line 64..76
    surnames_source,        \* which input surnames_list was taken from
    TARGET_SURNAMES,        \* line 122
    search_columns,         \* line 173 / 204
    results,                \* line 168
    total_checked_rows,     \* line 169
    errors,                 \* file names reported by st.error (line 236)
    i,                      \* loop index of line 207 (files already processed)
    combined,               \* line 241..242
    parses,                 \* log of parse attempts: file, phase, start position
    calls,                  \* log of find_matches calls (lines 213, 229)
    unit,                   \* arguments and result of a directly called function
    pc                      \* position of the script

vars == << uploaded_surnames_file, pasted, uploaded_files, search_cols_input,
           exact_match, substring_match, match_last_token, streams,
           surnames_list, surnames_source, TARGET_SURNAMES, search_columns,
           results, total_checked_rows, errors, i, combined, parses, calls,
           unit, pc >>

-----------------------------------------------------------------------------
(* Bounds of the model.                                                    *)

\* Longest pasted surname text drawn for the target-set builder.
MaxText == 4
\* Most rows of a table drawn for the row matcher.
MaxRows == 2
\* Most header cells of a table drawn for the column detector.
MaxCols == 2
\* Most data files in a batch.
MaxFiles == 2

(* Program constants.                                                      *)

\* uploaded_files[:100]
FILE_CAP == 100
\* nrows=50 / head(50) of the auto-detect peek
PEEK_ROWS == 50

-----------------------------------------------------------------------------
(* Python str operations on character sequences.                           *)

UpperChars ==
    << "A","B","C","D","E","F","G","H","I","J","K","L","M",
       "N","O","P","Q","R","S","T","U","V","W","X","Y","Z" >>

LowerChars ==
    << "a","b","c","d","e","f","g","h","i","j","k","l","m",
       "n","o","p","q","r","s","t","u","v","w","x","y","z" >>

DigitChars == { "0","1","2","3","4","5","6","7","8","9" }

\* str.isspace for one character
IsSpace(c) == c \in { " ", "\t", "\n", "\r" }

\* str.lower for one character
LowerChar(c) ==
    IF \E k \in 1..26 : UpperChars[k] = c
    THEN LowerChars[CHOOSE k \in 1..26 : UpperChars[k] = c]
    ELSE c

\* str.lower
StrLower(s) == [k \in 1..Len(s) |-> LowerChar(s[k])]

Min(S) == CHOOSE x \in S : \A y \in S : x <= y
Max(S) == CHOOSE x \in S : \A y \in S : x >= y

\* str.strip
StrStrip(s) ==
    LET keep == { k \in 1..Len(s) : ~IsSpace(s[k]) }
    IN  IF keep = {} THEN << >> ELSE SubSeq(s, Min(keep), Max(keep))

\* text.replace(',', '\n')
ReplaceCommas(s) == [k \in 1..Len(s) |-> IF s[k] = "," THEN "\n" ELSE s[k]]

\* str.splitlines: the pieces between line breaks; no piece after a final break
SplitLines(s) ==
    LET brk    == { k \in 1..Len(s) : s[k] \in { "\n", "\r" } }
        starts == { 1 } \cup { k + 1 : k \in brk }
        \* the piece starting at position a ends before the next break
        piece(a) ==
            LET nxt == { k \in brk : k >= a }
            IN  IF nxt = {} THEN SubSeq(s, a, Len(s)) ELSE SubSeq(s, a, Min(nxt) - 1)
        live   == { a \in starts : a <= Len(s) }
        RECURSIVE build(_)
        build(S) ==
            IF S = {} THEN << >>
            ELSE LET a == Min(S) IN << piece(a) >> \o build(S \ { a })
    IN  build(live)

\* str.split(","): the pieces between commas (always at least one piece)
SplitCommas(s) ==
    LET brk    == { k \in 1..Len(s) : s[k] = "," }
        starts == { 1 } \cup { k + 1 : k \in brk }
        piece(a) ==
            LET nxt == { k \in brk : k >= a }
            IN  IF nxt = {} THEN SubSeq(s, a, Len(s)) ELSE SubSeq(s, a, Min(nxt) - 1)
        RECURSIVE build(_)
        build(S) ==
            IF S = {} THEN << >>
            ELSE LET a == Min(S) IN << piece(a) >> \o build(S \ { a })
    IN  build(starts)

\* [s.strip() for s in xs]
StripAll(xs) == [k \in 1..Len(xs) |-> StrStrip(xs[k])]

\* [x for x in xs if x]  (non-empty strings)
NonEmpty(xs) == SelectSeq(xs, LAMBDA x : x # << >>)

\* list(dict.fromkeys(xs)): first occurrences, in order
FromKeys(xs) ==
    LET keep == { k \in 1..Len(xs) : \A j \in 1..(k - 1) : xs[j] # xs[k] }
        RECURSIVE build(_)
        build(S) ==
            IF S = {} THEN << >>
            ELSE LET a == Min(S) IN << xs[a] >> \o build(S \ { a })
    IN  build(keep)

\* set(xs)
Range(xs) == { xs[k] : k \in 1..Len(xs) }

\* xs[:n]
Take(xs, n) == SubSeq(xs, 1, IF Len(xs) < n THEN Len(xs) ELSE n)

-----------------------------------------------------------------------------
(* pandas values.  A cell is missing (NaN), text, or a number kept as its   *)
(* digits; a column label is text or, for a numeric spreadsheet header      *)
(* cell, an int.  A DataFrame is its labels, its column dtypes and rows.    *)

NaN == [k |-> "nan", v |-> << >>]
Str(s) == [k |-> "str", v |-> s]
Num(d) == [k |-> "num", v |-> d]
IntLabel(d) == [k |-> "int", v |-> d]

IsNumeric(field) == field # << >> /\ \A k \in 1..Len(field) : field[k] \in DigitChars

\* pd.DataFrame()
EmptyDataFrame == [columns |-> << >>, dtypes |-> << >>, rows |-> << >>]

\* DataFrame.empty
IsEmpty(df) == Len(df.columns) = 0 \/ Len(df.rows) = 0

\* The parser's type inference: the first line is the header; a column whose
\* filled cells are all numbers is int64, or float64 when a cell is missing;
\* any other column is object and keeps its cells as text.  A numeric header
\* cell of a spreadsheet becomes an int label; a CSV header is always text.
ParseTable(lines, spreadsheet) ==
    IF lines = << >> THEN EmptyDataFrame
    ELSE
    LET header == lines[1]
        body   == SubSeq(lines, 2, Len(lines))
        ncol   == Len(header)

        filled(j) == { r \in 1..Len(body) : body[r][j] # << >> }
        dtype(j) ==
            IF Len(body) = 0 THEN "object"
            ELSE IF \A r \in filled(j) : IsNumeric(body[r][j])
                 THEN IF filled(j) = 1..Len(body) THEN "int64" ELSE "float64"
                 ELSE "object"
        cell(r, j) ==
            IF body[r][j] = << >> THEN NaN
            ELSE IF dtype(j) = "object" THEN Str(body[r][j]) ELSE Num(body[r][j])
    IN  [ columns |-> [j \in 1..ncol |->
                         IF spreadsheet /\ IsNumeric(header[j])
                         THEN IntLabel(header[j]) ELSE Str(header[j])],
          dtypes  |-> [j \in 1..ncol |-> dtype(j)],
          rows    |-> [r \in 1..Len(body) |-> [j \in 1..ncol |-> cell(r, j)]] ]

\* df.head(n)
HeadRows(df, n) == [df EXCEPT !.rows = Take(df.rows, n)]

\* str(x) of a filled cell: an int prints its digits, a float adds ".0"
PyStr(cell, dtype) ==
    IF cell.k = "num" /\ dtype = "float64" THEN cell.v \o << ".", "0" >> ELSE cell.v

\* Series.fillna(""), then str()
FilledText(cell, dtype) == IF cell.k = "nan" THEN << >> ELSE PyStr(cell, dtype)

\* pd.read_csv on a stream standing at line `pos`: what is left of the stream
\* is parsed, its first remaining line as the header.  Nothing left, or an
\* undecodable file, raises.
ReadCsvRaises(f, pos) == f.health # "ok" \/ pos >= Len(f.sheets[1].lines)
ReadCsv(f, pos) ==
    ParseTable(SubSeq(f.sheets[1].lines, pos + 1, Len(f.sheets[1].lines)), FALSE)

\* The position a read leaves the stream at: the parser pulls the stream into
\* its buffer before cutting lines, and every modelled file fits the buffer,
\* so a read (nrows=50 included) leaves the stream at its end.
AfterRead(f, pos) ==
    IF f.health = "ok" THEN Len(f.sheets[1].lines) ELSE pos

\* pd.read_excel(f, sheet_name=None): every sheet, in workbook order.  The
\* reader rewinds the stream itself, so the position does not matter.
ReadExcelAllRaises(f) == f.health # "ok"
ReadExcelAll(f) ==
    [k \in 1..Len(f.sheets) |->
        [name |-> f.sheets[k].name, df |-> ParseTable(f.sheets[k].lines, TRUE)]]

\* pd.read_excel(f): the first sheet only
ReadExcelFirstRaises(f) == f.health = "corrupt"
ReadExcelFirst(f) == ParseTable(f.sheets[1].lines, TRUE)

-----------------------------------------------------------------------------
(* Step 1: the surname list (lines 43..79) and the target set (119..122).  *)

\* [s.strip() for s in text.replace(',', '\n').splitlines() if s.strip()]
SplitEntries(text) ==
    NonEmpty(StripAll(SplitLines(ReplaceCommas(text))))

\* load_surnames_from_file: an .xlsx file gives every filled cell as text, a
\* text file is decoded and split; any failure is reported and gives [].
load_surnames_from_file(f) ==
    IF f.kind = "undecodable" THEN << >>
    ELSE IF f.kind = "xlsx" THEN f.cells
    ELSE SplitEntries(f.text)

\* variant of lines 64..70 that takes the pasted text whenever there is one
RawSurnames_prefers_pasted(file, text) ==
    LET fromFile == IF file.kind # "none" THEN load_surnames_from_file(file) ELSE << >>
    IN  IF text # << >>
        THEN [list |-> SplitEntries(text), source |-> "pasted"]
        ELSE [list |-> fromFile,
              source |-> IF fromFile = << >> THEN "none" ELSE "file"]

\* lines 64..70: the uploaded file first, the pasted text only when the file
\* gave an empty list
RawSurnames(file, text) ==
    LET fromFile == IF file.kind # "none" THEN load_surnames_from_file(file) ELSE << >>
    IN  IF text # << >> /\ fromFile = << >>
        THEN [list |-> SplitEntries(text), source |-> "pasted"]
        ELSE [list |-> fromFile,
              source |-> IF fromFile = << >> THEN "none" ELSE "file"]

\* line 76: list(dict.fromkeys([s.strip() for s in surnames_list if s.strip()]))
NormalizeSurnames(xs) == FromKeys(NonEmpty(StripAll(xs)))

\* variant of surnames_set that keeps the case of each entry
surnames_set_keeps_case(surnames) ==
    { StrStrip(surnames[k]) : k \in { j \in 1..Len(surnames) : StrStrip(surnames[j]) # << >> } }

\* surnames_set
surnames_set(surnames) ==
    { StrLower(StrStrip(surnames[k])) :
        k \in { j \in 1..Len(surnames) : StrStrip(surnames[j]) # << >> } }

-----------------------------------------------------------------------------
(* Column detection and row matching (lines 99..158).                      *)

COMMON_SURNAME_COLS ==
    << << "s","u","r","n","a","m","e" >>,
       << "l","a","s","t","_","n","a","m","e" >>,
       << "l","a","s","t"," ","n","a","m","e" >>,
       << "l","a","s","t","n","a","m","e" >>,
       << "f","a","m","i","l","y","_","n","a","m","e" >>,
       << "f","a","m","i","l","y"," ","n","a","m","e" >>,
       << "f","a","m","i","l","y","n","a","m","e" >>,
       << "l","n","a","m","e" >>,
       << "s","u","r","_","n","a","m","e" >>,
       << "s","i","r","n","a","m","e" >>,
       << "s","u","r","n","a","m","e","s" >>,
       << "l","a","s","t" >>,
       << "l","a","s","t","n","a","m","e" >>,
       << "n","a","m","e","_","l","a","s","t" >>,
       << "f","a","m","i","l","y" >> >>

\* [c.lower() for c in df.columns] raises AttributeError on a label that is
\* not text
detect_raises(df) == \E j \in 1..Len(df.columns) : df.columns[j].k # "str"

\* detect_surname_columns: for each candidate in list order that is among the
\* lower-cased labels, the original label at the first position holding it
detect_surname_columns(df) ==
    LET df_cols == [j \in 1..Len(df.columns) |-> StrLower(df.columns[j].v)]
        index(c) == Min({ j \in 1..Len(df_cols) : df_cols[j] = c })
        RECURSIVE walk(_)
        walk(c) ==
            IF c > Len(COMMON_SURNAME_COLS) THEN << >>
            ELSE IF \E j \in 1..Len(df_cols) : df_cols[j] = COMMON_SURNAME_COLS[c]
                 THEN << df.columns[index(COMMON_SURNAME_COLS[c])] >> \o walk(c + 1)
                 ELSE walk(c + 1)
    IN  walk(1)

\* variant of normalize_text that strips but keeps the case
normalize_text_keeps_case(x) == StrStrip(x)

\* normalize_text: str(x).strip().lower()
normalize_text(x) == StrLower(StrStrip(x))

\* a character of the class [\s,;/\\]
IsTokenSep(c) == IsSpace(c) \/ c \in { ",", ";", "/", "\\" }

\* last_name_token: the last non-empty piece of re.split(r"[\s,;/\\]+",
\* text.strip()), lower-cased; "" when there is none
last_name_token(text) ==
    LET t    == StrStrip(text)
        tok  == { k \in 1..Len(t) : ~IsTokenSep(t[k]) }
    IN  IF tok = {} THEN << >>
        ELSE LET last  == Max(tok)
                 first == Min({ a \in 1..last : \A k \in a..last : k \in tok })
             IN  StrLower(SubSeq(t, first, last))

\* One pattern character against one text character: "." is the regular
\* expression wildcard (any character but a line break); the other modelled
\* characters stand for themselves.
PatternCharMatches(p, c) == IF p = "." THEN c # "\n" ELSE p = c

\* Series.str.contains(s, na=False) with its default regex=True: re.search
RegexContains(text, pat) ==
    \E a \in 1..(Len(text) - Len(pat) + 1) :
        \A k \in 1..Len(pat) : PatternCharMatches(pat[k], text[a + k - 1])

\* position of a label among df.columns
ColumnIndex(df, col) == Min({ j \in 1..Len(df.columns) : df.columns[j] = col })

\* lines 139..142: the columns searched
text_cols(df, search_columns_) ==
    IF search_columns_ = << >>
    THEN LET obj == { j \in 1..Len(df.columns) : df.dtypes[j] = "object" }
             RECURSIVE build(_)
             build(S) ==
                 IF S = {} THEN << >>
                 ELSE LET a == Min(S) IN << df.columns[a] >> \o build(S \ { a })
         IN  build(obj)
    ELSE SelectSeq(search_columns_, LAMBDA c : \E j \in 1..Len(df.columns) : df.columns[j] = c)

\* lines 146..149: the comparison string of one cell
col_series(df, col, r, last_token_only) ==
    LET j    == ColumnIndex(df, col)
        text == FilledText(df.rows[r][j], df.dtypes[j])
    IN  IF last_token_only THEN last_name_token(text) ELSE normalize_text(text)

\* lines 145..157: the mask, OR-ed over the columns and the enabled modes
match_mask(df, search_columns_, surnames, exact, substring, last_token_only) ==
    LET cols == text_cols(df, search_columns_)
    IN  [r \in 1..Len(df.rows) |->
            \E c \in 1..Len(cols) :
                LET s == col_series(df, cols[c], r, last_token_only)
                IN  \/ exact /\ s \in surnames
                    \/ substring /\ \E t \in surnames : t # << >> /\ RegexContains(s, t)]

\* find_matches_in_dataframe
find_matches_in_dataframe(df, search_columns_, surnames, exact, substring, last_token_only) ==
    IF IsEmpty(df) THEN EmptyDataFrame
    ELSE LET mask == match_mask(df, search_columns_, surnames, exact, substring, last_token_only)
             keep == { r \in 1..Len(df.rows) : mask[r] }
             RECURSIVE build(_)
             build(S) ==
                 IF S = {} THEN << >>
                 ELSE LET a == Min(S) IN << df.rows[a] >> \o build(S \ { a })
         IN  [df EXCEPT !.rows = build(keep)]

-----------------------------------------------------------------------------
(* Result finalization (lines 240..242).                                   *)

\* the labels of all tables, in order of first appearance
UnionColumns(tables) ==
    LET RECURSIVE walk(_)
        walk(k) == IF k > Len(tables) THEN << >> ELSE tables[k].df.columns \o walk(k + 1)
    IN  FromKeys(walk(1))

\* pd.concat(results, ignore_index=True): every row of every table in list
\* order, aligned to the union of the columns (a column a table lacks is NaN),
\* with the provenance stamped on the table at lines 215..216 / 231..232
Concat(tables) ==
    LET cols == UnionColumns(tables)
        row(t, r) ==
            [ vals  |-> [c \in 1..Len(cols) |->
                           IF \E j \in 1..Len(t.df.columns) : t.df.columns[j] = cols[c]
                           THEN t.df.rows[r][ColumnIndex(t.df, cols[c])]
                           ELSE NaN],
              source_file |-> t.source_file,
              sheet_name  |-> t.sheet_name ]
        RECURSIVE walk(_)
        walk(k) ==
            IF k > Len(tables) THEN << >>
            ELSE [r \in 1..Len(tables[k].df.rows) |-> row(tables[k], r)] \o walk(k + 1)
    IN  [columns |-> cols, rows |-> walk(1)]

\* variant of drop_duplicates that compares the data columns only
drop_duplicates_ignoring_provenance(rows) ==
    LET keep == { k \in 1..Len(rows) : \A j \in 1..(k - 1) : rows[j].vals # rows[k].vals }
        RECURSIVE build(_)
        build(S) ==
            IF S = {} THEN << >>
            ELSE LET a == Min(S) IN << rows[a] >> \o build(S \ { a })
    IN  build(keep)

\* DataFrame.drop_duplicates(): a row equal in every column to an earlier row
\* is dropped; the first occurrence stays, in place
drop_duplicates(rows) ==
    LET keep == { k \in 1..Len(rows) : \A j \in 1..(k - 1) : rows[j] # rows[k] }
        RECURSIVE build(_)
        build(S) ==
            IF S = {} THEN << >>
            ELSE LET a == Min(S) IN << rows[a] >> \o build(S \ { a })
    IN  build(keep)

NoTable == [columns |-> << >>, rows |-> << >>]

-----------------------------------------------------------------------------
(* The script.                                                             *)

NoUnit == [fn |-> "none"]

\* lines 64..79 and 122: the surname list and the target set
LoadSurnames ==
    /\ pc = "surnames"
    /\ LET raw == RawSurnames(uploaded_surnames_file, pasted)
           lst == IF raw.list = << >> THEN << >> ELSE NormalizeSurnames(raw.list)
       IN  /\ surnames_list' = lst
           /\ surnames_source' = raw.source
           /\ TARGET_SURNAMES' = surnames_set(lst)
    /\ pc' = "main"
    /\ UNCHANGED << uploaded_surnames_file, pasted, uploaded_files, search_cols_input,
                    exact_match, substring_match, match_last_token, streams,
                    search_columns, results, total_checked_rows, errors, i,
                    combined, parses, calls, unit >>

\* line 173: [c.strip() for c in search_cols_input.split(",") if c.strip()]
ParseSearchColumns(text) ==
    LET names == NonEmpty(StripAll(SplitCommas(text)))
    IN  [k \in 1..Len(names) |-> Str(names[k])]

\* lines 186..193: the first sheet that is not empty, cut to 50 rows
FirstNonEmptySheet(sheets) ==
    LET live == { k \in 1..Len(sheets) : ~IsEmpty(sheets[k].df) }
    IN  IF live = {} THEN EmptyDataFrame ELSE HeadRows(sheets[Min(live)].df, PEEK_ROWS)

\* variant of PeekTable that peeks into the first file that parses
PeekFirstParsable(files, pos) ==
    LET ok == { k \in 1..Len(files) :
                  IF files[k].ext = "csv" THEN ~ReadCsvRaises(files[k], pos[k])
                  ELSE ~ReadExcelAllRaises(files[k]) }
    IN  IF ok = {} THEN EmptyDataFrame
        ELSE LET f == files[Min(ok)]
             IN  IF f.ext = "csv" THEN HeadRows(ReadCsv(f, pos[Min(ok)]), PEEK_ROWS)
                 ELSE FirstNonEmptySheet(ReadExcelAll(f))

\* lines 178..199: the sample of the first file; an empty DataFrame when the
\* first file cannot be parsed
PeekTable(files, pos) ==
    LET first == files[1]
    IN  IF first.ext = "csv"
        THEN IF ReadCsvRaises(first, pos[1]) THEN EmptyDataFrame
             ELSE HeadRows(ReadCsv(first, pos[1]), PEEK_ROWS)
        ELSE IF ReadExcelAllRaises(first) THEN EmptyDataFrame
             ELSE FirstNonEmptySheet(ReadExcelAll(first))

\* the stream of the first file after the peek: a CSV read leaves it where
\* the parser stopped reading; a failed read is followed by seek(0)
StreamAfterPeek(first, pos) ==
    IF first.ext = "csv"
    THEN IF ReadCsvRaises(first, pos) THEN 0 ELSE AfterRead(first, pos)
    ELSE 0

\* lines 161..205: the cap, the search columns and the auto-detect peek.
\* detect_surname_columns is called outside any try: when it raises, the
\* script ends with the exception.
Begin ==
    /\ pc = "main"
    /\ uploaded_files # << >> /\ surnames_list # << >>
    /\ LET files  == Take(uploaded_files, FILE_CAP)
           given  == ParseSearchColumns(search_cols_input)
           peeked == given = << >>
           peek   == PeekTable(files, streams)
           raises == peeked /\ ~IsEmpty(peek) /\ detect_raises(peek)
           detected == IF peeked /\ ~IsEmpty(peek) /\ ~raises
                       THEN detect_surname_columns(peek) ELSE << >>
       IN  /\ uploaded_files' = files
           /\ search_columns' = IF detected # << >> THEN detected ELSE given
           /\ streams' = IF peeked
                         THEN [streams EXCEPT ![1] = StreamAfterPeek(files[1], streams[1])]
                         ELSE streams
           /\ parses' = IF peeked
                        THEN Append(parses, [file |-> 1, phase |-> "peek",
                                             start |-> IF files[1].ext = "csv"
                                                       THEN streams[1] ELSE 0])
                        ELSE parses
           /\ pc' = IF raises THEN "raised" ELSE "loop"
    /\ results' = << >>
    /\ total_checked_rows' = 0
    /\ i' = 0
    /\ UNCHANGED << uploaded_surnames_file, pasted, search_cols_input, exact_match,
                    substring_match, match_last_token, surnames_list, surnames_source,
                    TARGET_SURNAMES, errors, combined, calls, unit >>

\* lines 272..278: nothing to process
Idle ==
    /\ pc = "main"
    /\ uploaded_files = << >> \/ surnames_list = << >>
    /\ pc' = "done"
    /\ UNCHANGED << uploaded_surnames_file, pasted, uploaded_files, search_cols_input,
                    exact_match, substring_match, match_last_token, streams,
                    surnames_list, surnames_source, TARGET_SURNAMES, search_columns,
                    results, total_checked_rows, errors, i, combined, parses, calls,
                    unit >>

\* lines 213 / 229: the matcher called with the script's settings
Matched(df) ==
    find_matches_in_dataframe(df, search_columns, TARGET_SURNAMES,
                              exact_match, substring_match, match_last_token)

\* lines 210..233: the named tables one file gives; << >> with raised = TRUE
\* when parsing it raises
TablesOf(f, pos) ==
    IF f.ext = "csv"
    THEN IF ReadCsvRaises(f, pos) THEN [raised |-> TRUE, sheets |-> << >>]
         ELSE [raised |-> FALSE,
               sheets |-> << [name |-> "<csv>", df |-> ReadCsv(f, pos)] >>]
    ELSE IF ~ReadExcelAllRaises(f) THEN [raised |-> FALSE, sheets |-> ReadExcelAll(f)]
         ELSE IF ReadExcelFirstRaises(f) THEN [raised |-> TRUE, sheets |-> << >>]
              ELSE [raised |-> FALSE,
                    sheets |-> << [name |-> "Sheet1", df |-> ReadExcelFirst(f)] >>]

\* the sheets the loop of line 224 does not skip (a CSV table is never skipped
\* by the loop: an empty one yields an empty match)
Scanned(f, sheets) ==
    IF f.ext = "csv" THEN sheets
    ELSE SelectSeq(sheets, LAMBDA sh : ~IsEmpty(sh.df))

\* lines 207..238: one iteration of the loop over the files
ProcessFile ==
    /\ pc = "loop"
    /\ i < Len(uploaded_files)
    /\ LET k   == i + 1
           f   == uploaded_files[k]
           got == TablesOf(f, streams[k])
           scanned == Scanned(f, got.sheets)
           hits == SelectSeq(
                     [n \in 1..Len(scanned) |->
                        [df |-> Matched(scanned[n].df), source_file |-> f.name,
                         sheet_name |-> scanned[n].name]],
                     LAMBDA t : ~IsEmpty(t.df))
           RECURSIVE count(_)
           count(n) == IF n > Len(scanned) THEN 0
                       ELSE Len(scanned[n].df.rows) + count(n + 1)
       IN  /\ errors' = IF got.raised THEN Append(errors, f.name) ELSE errors
           /\ results' = results \o hits
           /\ total_checked_rows' = total_checked_rows + count(1)
           /\ streams' = IF f.ext = "csv"
                         THEN [streams EXCEPT ![k] = AfterRead(f, streams[k])]
                         ELSE streams
           /\ parses' = parses
                  \o << [file |-> k, phase |-> "main",
                         start |-> IF f.ext = "csv" THEN streams[k] ELSE 0] >>
                  \o (IF f.ext # "csv" /\ ReadExcelAllRaises(f)
                      THEN << [file |-> k, phase |-> "retry", start |-> 0] >>
                      ELSE << >>)
           /\ calls' = calls \o
                  [n \in 1..Len(scanned) |->
                     [file |-> k, sheet_name |-> scanned[n].name,
                      df |-> scanned[n].df, columns |-> search_columns]]
    /\ i' = i + 1
    /\ UNCHANGED << uploaded_surnames_file, pasted, uploaded_files, search_cols_input,
                    exact_match, substring_match, match_last_token, surnames_list,
                    surnames_source, TARGET_SURNAMES, search_columns, combined,
                    unit, pc >>

\* lines 240..270: concatenate and deduplicate, or report that nothing matched
Finalize ==
    /\ pc = "loop"
    /\ i = Len(uploaded_files)
    /\ combined' = IF results # << >>
                   THEN LET all == Concat(results)
                        IN  [all EXCEPT !.rows = drop_duplicates(all.rows)]
                   ELSE combined
    /\ pc' = "done"
    /\ UNCHANGED << uploaded_surnames_file, pasted, uploaded_files, search_cols_input,
                    exact_match, substring_match, match_last_token, streams,
                    surnames_list, surnames_source, TARGET_SURNAMES, search_columns,
                    results, total_checked_rows, errors, i, parses, calls, unit >>

\* a direct call of find_matches_in_dataframe
CallFindMatches ==
    /\ pc = "call"
    /\ unit.fn = "find_matches_in_dataframe"
    /\ unit' = [unit EXCEPT !.ret =
                  find_matches_in_dataframe(unit.df, unit.search_columns, unit.surnames,
                                            unit.exact, unit.substring,
                                            unit.last_token_only)]
    /\ pc' = "returned"
    /\ UNCHANGED << uploaded_surnames_file, pasted, uploaded_files, search_cols_input,
                    exact_match, substring_match, match_last_token, streams,
                    surnames_list, surnames_source, TARGET_SURNAMES, search_columns,
                    results, total_checked_rows, errors, i, combined, parses, calls >>

\* a direct call of detect_surname_columns
CallDetect ==
    /\ pc = "call"
    /\ unit.fn = "detect_surname_columns"
    /\ unit' = [unit EXCEPT
                  !.raised = detect_raises(unit.df),
                  !.ret = IF detect_raises(unit.df) THEN << >>
                          ELSE detect_surname_columns(unit.df)]
    /\ pc' = "returned"
    /\ UNCHANGED << uploaded_surnames_file, pasted, uploaded_files, search_cols_input,
                    exact_match, substring_match, match_last_token, streams,
                    surnames_list, surnames_source, TARGET_SURNAMES, search_columns,
                    results, total_checked_rows, errors, i, combined, parses, calls >>

-----------------------------------------------------------------------------
(* Inputs.                                                                 *)

\* all sequences over S of length at most n
SeqsUpTo(S, n) == UNION { [1..m -> S] : m \in 0..n }

NoSurnameFile == [kind |-> "none", text |-> << >>, cells |-> << >>]

\* the state of everything the script has not computed yet
Fresh ==
    /\ surnames_list = << >>
    /\ surnames_source = "none"
    /\ TARGET_SURNAMES = {}
    /\ search_columns = << >>
    /\ results = << >>
    /\ total_checked_rows = 0
    /\ errors = << >>
    /\ i = 0
    /\ combined = NoTable
    /\ parses = << >>
    /\ calls = << >>

NoInputs ==
    /\ uploaded_surnames_file = NoSurnameFile
    /\ pasted = << >>
    /\ uploaded_files = << >>
    /\ streams = << >>
    /\ search_cols_input = << >>
    /\ exact_match = TRUE
    /\ substring_match = FALSE
    /\ match_last_token = FALSE

(* The whole script on batches of catalogue files.                         *)

PeopleLines ==
    << << << "N","a","m","e" >> >>,
       << << "J","o","h","n"," ","S","m","i","t","h" >> >>,
       << << "A","n","n"," ","L","e","e" >> >>,
       << << "B","o","b"," ","P","a","r","k" >> >> >>

StaffLines ==
    << << << "I","D" >>, << "S","u","r","n","a","m","e" >> >>,
       << << "7" >>, << " ","S","m","i","t","h"," " >> >>,
       << << "8" >>, << "P","a","r","k" >> >>,
       << << "7" >>, << " ","S","m","i","t","h"," " >> >> >>

HeaderOnlyLines ==
    << << << "S","u","r","n","a","m","e" >> >> >>

YearLines ==
    << << << "2","0","2","0" >>, << "N","a","m","e" >> >>,
       << << "7" >>, << "A","n","n"," ","L","e","e" >> >> >>

DataFiles ==
    { [name |-> "data.csv", ext |-> "csv", health |-> "ok",
       sheets |-> << [name |-> "<csv>", lines |-> PeopleLines] >>],
      [name |-> "staff.csv", ext |-> "csv", health |-> "ok",
       sheets |-> << [name |-> "<csv>", lines |-> StaffLines] >>],
      [name |-> "bad.csv", ext |-> "csv", health |-> "corrupt",
       sheets |-> << [name |-> "<csv>", lines |-> PeopleLines] >>],
      [name |-> "book.xlsx", ext |-> "xlsx", health |-> "ok",
       sheets |-> << [name |-> "Empty", lines |-> HeaderOnlyLines],
                     [name |-> "Staff", lines |-> StaffLines] >>],
      [name |-> "broken.xlsx", ext |-> "xlsx", health |-> "corrupt",
       sheets |-> << [name |-> "Staff", lines |-> StaffLines] >>],
      [name |-> "legacy.xls", ext |-> "xlsx", health |-> "partial",
       sheets |-> << [name |-> "Staff", lines |-> StaffLines],
                     [name |-> "Chart", lines |-> << >>] >>],
      [name |-> "years.xlsx", ext |-> "xlsx", health |-> "ok",
       sheets |-> << [name |-> "Y", lines |-> YearLines] >>] }

PastedTexts ==
    { << >>, << "s","m","i","t","h",",","l","e","e" >>,
      << " ","S","m","i","t","h"," ","\n","P","A","R","K" >> }

SearchColumnInputs ==
    { << >>, << "N","a","m","e" >>,
      << "S","u","r","n","a","m","e",","," ","I","D" >> }

Init ==
    /\ uploaded_surnames_file = NoSurnameFile
    /\ pasted \in PastedTexts
    /\ uploaded_files \in SeqsUpTo(DataFiles, MaxFiles)
    /\ streams = [k \in 1..Len(uploaded_files) |-> 0]
    /\ search_cols_input \in SearchColumnInputs
    /\ exact_match \in BOOLEAN
    /\ substring_match \in BOOLEAN
    /\ match_last_token \in BOOLEAN
    /\ Fresh
    /\ unit = NoUnit
    /\ pc = "surnames"

Next == LoadSurnames \/ Begin \/ Idle \/ ProcessFile \/ Finalize

Spec == Init /\ [][Next]_vars

(* The target-set builder on every short pasted text and surname file.     *)

TextAlphabet == { "a", "A", " ", ",", "\n" }

SurnameFiles ==
    { NoSurnameFile,
      [kind |-> "undecodable", text |-> << >>, cells |-> << >>],
      [kind |-> "txt", text |-> << >>, cells |-> << >>],
      [kind |-> "txt", text |-> << " ",",","\n" >>, cells |-> << >>],
      [kind |-> "txt", text |-> << "B","\n","b"," ",",","b" >>, cells |-> << >>],
      [kind |-> "xlsx", text |-> << >>, cells |-> << >>],
      [kind |-> "xlsx", text |-> << >>, cells |-> << << " " >> >>],
      [kind |-> "xlsx", text |-> << >>, cells |-> << << "B"," " >>, << "b" >>, << " " >> >>] }

InitTargets ==
    /\ uploaded_surnames_file \in SurnameFiles
    /\ pasted \in SeqsUpTo(TextAlphabet, MaxText)
    /\ uploaded_files = << >>
    /\ streams = << >>
    /\ search_cols_input = << >>
    /\ exact_match = TRUE
    /\ substring_match = FALSE
    /\ match_last_token = FALSE
    /\ Fresh
    /\ unit = NoUnit
    /\ pc = "surnames"

NextTargets == LoadSurnames \/ Idle

SpecTargets == InitTargets /\ [][NextTargets]_vars

(* find_matches_in_dataframe on every small table.                         *)

MatcherFields ==
    { << >>,
      << " ","A" >>,
      << "A"," " >>,
      << "a","b" >>,
      << "b","." >>,
      << "a"," ","b" >>,
      << " ","S","m","i","t","h"," " >>,
      << "7" >> }

MatcherTargets ==
    { {}, { << "a" >> }, { << "a" >>, << "s","m","i","t","h" >> },
      { << >>, << "b" >> }, { << "." >> }, { << "7" >> } }

MatcherColumns ==
    { << >>, << Str(<< "n","a","m","e" >>) >>, << Str(<< "i","d" >>), Str(<< "z","z" >>) >> }

\* a table with a "name" column of drawn cells and, optionally, a second
\* column that is all numbers ("id") or all text ("alt")
MatcherLines(cells, extra) ==
    IF extra = "none"
    THEN << << << "n","a","m","e" >> >> >> \o [r \in 1..Len(cells) |-> << cells[r] >>]
    ELSE IF extra = "id"
         THEN << << << "n","a","m","e" >>, << "i","d" >> >> >> \o [r \in 1..Len(cells) |-> << cells[r], << "7" >> >>]
         ELSE << << << "n","a","m","e" >>, << "a","l","t" >> >> >> \o [r \in 1..Len(cells) |-> << cells[r], << "b" >> >>]

InitMatcher ==
    /\ NoInputs
    /\ Fresh
    /\ \E cells \in SeqsUpTo(MatcherFields, MaxRows),
          extra \in { "none", "id", "alt" },
          cols \in MatcherColumns,
          targets \in MatcherTargets,
          ex \in BOOLEAN, sub \in BOOLEAN, lt \in BOOLEAN :
          unit = [fn |-> "find_matches_in_dataframe",
                  df |-> ParseTable(MatcherLines(cells, extra), FALSE),
                  search_columns |-> cols, surnames |-> targets,
                  exact |-> ex, substring |-> sub, last_token_only |-> lt,
                  ret |-> EmptyDataFrame]
    /\ pc = "call"

NextMatcher == CallFindMatches

SpecMatcher == InitMatcher /\ [][NextMatcher]_vars

(* detect_surname_columns on every short header.                           *)

HeaderNames ==
    { << "I","D" >>,
      << "L","a","s","t"," ","N","a","m","e" >>,
      << "A","g","e" >>,
      << "l","a","s","t","n","a","m","e" >>,
      << "S","u","r","n","a","m","e" >>,
      << "s","u","r","n","a","m","e" >>,
      << "F","A","M","I","L","Y" >>,
      << "2","0","2","0" >> }

InitDetector ==
    /\ NoInputs
    /\ Fresh
    /\ \E header \in SeqsUpTo(HeaderNames, MaxCols), spreadsheet \in BOOLEAN :
          /\ header # << >>
          /\ \A a, b \in 1..Len(header) : a # b => header[a] # header[b]
          /\ unit = [fn |-> "detect_surname_columns",
                     df |-> ParseTable(<< header >>, spreadsheet),
                     raised |-> FALSE, ret |-> << >>]
    /\ pc = "call"

NextDetector == CallDetect

SpecDetector == InitDetector /\ [][NextDetector]_vars

-----------------------------------------------------------------------------
(* Properties.                                                             *)

IsUpper(c) == \E k \in 1..26 : UpperChars[k] = c

NoRepeats(xs) == \A a, b \in 1..Len(xs) : a # b => xs[a] # xs[b]

\* position of the first occurrence of x in xs
FirstIndex(xs, x) == Min({ k \in 1..Len(xs) : xs[k] = x })

\* the entries of a raw text: the maximal pieces holding no comma or line break
RawPieces(text) ==
    LET sep(k) == text[k] \in { ",", "\n", "\r" }
    IN  { SubSeq(text, x[1], x[2]) :
            x \in { y \in (1..Len(text)) \X (1..Len(text)) :
                      /\ y[1] <= y[2]
                      /\ \A k \in y[1]..y[2] : ~sep(k)
                      /\ y[1] = 1 \/ sep(y[1] - 1)
                      /\ y[2] = Len(text) \/ sep(y[2] + 1) } }

IsBlank(s) == \A k \in 1..Len(s) : IsSpace(s[k])

\* the raw entries of a surname file
FilePieces(f) ==
    IF f.kind = "txt" THEN RawPieces(f.text)
    ELSE IF f.kind = "xlsx" THEN Range(f.cells)
    ELSE {}

\* the raw target list the script ended up reading
RawTargetEntries ==
    IF surnames_source = "file" THEN FilePieces(uploaded_surnames_file)
    ELSE IF surnames_source = "pasted" THEN RawPieces(pasted)
    ELSE {}

\* C7: once the surname list is loaded, the list has no repeated entry, the
\* target set has no empty member, every member is lower-case and has no
\* leading or trailing whitespace, and every non-blank raw entry of the list
\* that was read is in the set in its trimmed, lower-cased form.
TargetSetNormalized ==
    pc # "surnames" =>
        /\ NoRepeats(surnames_list)
        /\ \A t \in TARGET_SURNAMES :
              /\ t # << >>
              /\ ~IsSpace(t[1]) /\ ~IsSpace(t[Len(t)])
              /\ \A k \in 1..Len(t) : ~IsUpper(t[k])
        /\ \A e \in RawTargetEntries :
              ~IsBlank(e) => StrLower(StrStrip(e)) \in TARGET_SURNAMES

\* C7 witness: the pasted text " A,a" (padded, mixed case, the same surname
\* twice) has been reduced to the one target "a".
TargetSetNormalizedWitness ==
    /\ pc = "main"
    /\ surnames_source = "pasted"
    /\ pasted = << " ", "A", ",", "a" >>
    /\ TARGET_SURNAMES = { << "a" >> }

\* a surname file is usable when it can be read and holds a non-blank entry
FileUsable(f) == \E e \in FilePieces(f) : ~IsBlank(e)

\* the trimmed non-blank entries of a piece set
Trimmed(pieces) == { StrStrip(e) : e \in { x \in pieces : ~IsBlank(x) } }

\* C8: with both an uploaded surname file and pasted text present, a usable
\* file is the source of the list and the list is exactly its trimmed entries;
\* the pasted text is the source only when the file is not usable; and the
\* list never mixes entries of the two.
UploadedFilePreferred ==
    (pc # "surnames" /\ uploaded_surnames_file.kind # "none" /\ pasted # << >>) =>
        /\ FileUsable(uploaded_surnames_file) =>
              /\ surnames_source = "file"
              /\ Range(surnames_list) = Trimmed(FilePieces(uploaded_surnames_file))
        /\ surnames_source = "pasted" =>
              /\ ~FileUsable(uploaded_surnames_file)
              /\ Range(surnames_list) = Trimmed(RawPieces(pasted))
        /\ \/ Range(surnames_list) \subseteq Trimmed(FilePieces(uploaded_surnames_file))
           \/ Range(surnames_list) \subseteq Trimmed(RawPieces(pasted))

\* C8 witness: a usable text file and a non-blank pasted text are both
\* present and the list was taken from the file.
UploadedFilePreferredWitness ==
    /\ pc = "main"
    /\ uploaded_surnames_file.kind = "txt"
    /\ FileUsable(uploaded_surnames_file)
    /\ pasted = << "a" >>
    /\ surnames_source = "file"
    /\ surnames_list = << << "B" >>, << "b" >> >>

\* the comparison string the specification gives a cell: "" for a missing
\* cell, otherwise its text stripped and lower-cased
ComparisonString(cell, dtype) ==
    IF cell.k = "nan" THEN << >> ELSE StrLower(StrStrip(PyStr(cell, dtype)))

\* the positions of the columns the matcher is to search
SelectedColumns(df, cols) ==
    { j \in 1..Len(df.columns) :
        IF cols = << >> THEN df.dtypes[j] = "object"
        ELSE df.columns[j] \in Range(cols) }

\* C3: with exact on, substring off and last-token off, the rows returned are
\* exactly the rows having, in some selected column, a cell whose comparison
\* string is in the target set, with their values and order unchanged.
ExactModeSelects ==
    (/\ pc = "returned"
     /\ unit.fn = "find_matches_in_dataframe"
     /\ unit.exact /\ ~unit.substring /\ ~unit.last_token_only) =>
        LET df  == unit.df
            sel == SelectedColumns(df, unit.search_columns)
        IN  unit.ret.rows =
               SelectSeq(df.rows,
                         LAMBDA row : \E j \in sel :
                             ComparisonString(row[j], df.dtypes[j]) \in unit.surnames)

\* C3 witness: the cell " Smith " was matched by the target "smith".
ExactModeSelectsWitness ==
    /\ pc = "returned"
    /\ unit.fn = "find_matches_in_dataframe"
    /\ unit.exact /\ ~unit.substring /\ ~unit.last_token_only
    /\ << "s","m","i","t","h" >> \in unit.surnames
    /\ Len(unit.df.rows) = 2
    /\ unit.df.rows[1][1] = Str(<< "a","b" >>)
    /\ unit.df.rows[2][1] = Str(<< " ","S","m","i","t","h"," " >>)
    /\ unit.ret.rows = << unit.df.rows[2] >>

\* text holds t as a run of equal characters
LiteralContains(text, t) ==
    \E a \in 1..(Len(text) - Len(t) + 1) : SubSeq(text, a, a + Len(t) - 1) = t

\* C4: in substring mode (exact off) every returned row has, in some selected
\* column, a comparison string that literally contains a non-empty target; an
\* empty target selects nothing.
SubstringModeIsLiteral ==
    (/\ pc = "returned"
     /\ unit.fn = "find_matches_in_dataframe"
     /\ unit.substring /\ ~unit.exact) =>
        LET df  == unit.df
            sel == SelectedColumns(df, unit.search_columns)
            cmp(cell, dtype) ==
                IF unit.last_token_only THEN last_name_token(FilledText(cell, dtype))
                ELSE ComparisonString(cell, dtype)
        IN  \A r \in 1..Len(unit.ret.rows) :
               \E j \in sel, t \in unit.surnames :
                   /\ t # << >>
                   /\ LiteralContains(cmp(unit.ret.rows[r][j], df.dtypes[j]), t)

\* C5: the detector returns no label twice, returns exactly the labels whose
\* lower-cased form is a candidate, and returns them in candidate-list order.
DetectorExactAndDistinct ==
    (pc = "returned" /\ unit.fn = "detect_surname_columns" /\ ~unit.raised) =>
        LET rank(label) ==
                Min({ c \in 1..Len(COMMON_SURNAME_COLS) :
                        COMMON_SURNAME_COLS[c] = StrLower(label.v) })
        IN  /\ NoRepeats(unit.ret)
            /\ Range(unit.ret) =
                  { l \in Range(unit.df.columns) :
                      StrLower(l.v) \in Range(COMMON_SURNAME_COLS) }
            /\ \A a, b \in 1..Len(unit.ret) :
                  a < b => rank(unit.ret[a]) <= rank(unit.ret[b])

\* a data file no parse of which succeeds
Unparsable(f) ==
    IF f.ext = "csv" THEN f.health # "ok" \/ f.sheets[1].lines = << >>
    ELSE f.health = "corrupt"

\* the tagged matches of one file when its stream is parsed from the start
MatchesFromStart(f) ==
    LET sheets == Scanned(f, TablesOf(f, 0).sheets)
    IN  SelectSeq([n \in 1..Len(sheets) |->
                     [df |-> Matched(sheets[n].df), source_file |-> f.name,
                      sheet_name |-> sheets[n].name]],
                  LAMBDA t : ~IsEmpty(t.df))

\* the tagged matches of a batch, file by file in input order
ExpectedResults(files) ==
    LET RECURSIVE walk(_)
        walk(k) == IF k > Len(files) THEN << >>
                   ELSE MatchesFromStart(files[k]) \o walk(k + 1)
    IN  walk(1)

Processing == uploaded_files # << >> /\ surnames_list # << >>

\* C1: for a batch holding files that cannot be parsed, the aggregator never
\* raises; after the loop the reported errors are exactly the unparsable
\* files, one each and in input order; no unparsable file was matched; and
\* the matches of every other file are in the result.
PartialFailureIsolated ==
    (Processing /\ \E k \in 1..Len(uploaded_files) : Unparsable(uploaded_files[k])) =>
        /\ pc # "raised"
        /\ pc = "done" =>
              /\ errors = [k \in 1..Len(SelectSeq(uploaded_files, Unparsable)) |->
                              SelectSeq(uploaded_files, Unparsable)[k].name]
              /\ \A c \in 1..Len(calls) : ~Unparsable(uploaded_files[calls[c].file])
              /\ results = ExpectedResults(uploaded_files)

\* C2: for a batch of readable files and a non-empty target set, the result
\* before deduplication is, file by file and sheet by sheet in input order,
\* the rows the matcher selects from each table, tagged with the file name
\* and the sheet name ("<csv>" for a CSV); for data.csv with Name =
\* [John Smith, Ann Lee, Bob Park], targets {smith, lee}, substring and
\* last-token on, it is John Smith and Ann Lee.
EndToEndResult ==
    (Processing /\ \A k \in 1..Len(uploaded_files) : ~Unparsable(uploaded_files[k])) =>
        /\ pc = "done" =>
              /\ results = ExpectedResults(uploaded_files)
              /\ (/\ Len(uploaded_files) = 1
                  /\ uploaded_files[1].name = "data.csv"
                  /\ TARGET_SURNAMES = { << "s","m","i","t","h" >>, << "l","e","e" >> }
                  /\ ~exact_match /\ substring_match /\ match_last_token) =>
                    Concat(results).rows =
                        << [vals |-> << Str(<< "J","o","h","n"," ","S","m","i","t","h" >>) >>,
                            source_file |-> "data.csv", sheet_name |-> "<csv>"],
                           [vals |-> << Str(<< "A","n","n"," ","L","e","e" >>) >>,
                            source_file |-> "data.csv", sheet_name |-> "<csv>"] >>

\* C6: the finalized table holds no row twice, holds every distinct row of
\* the concatenation (rows that differ anywhere, provenance included, are
\* kept apart), and keeps the rows in the order of their first occurrence.
DeduplicationExact ==
    (pc = "done" /\ results # << >>) =>
        LET all == Concat(results).rows
            fin == combined.rows
        IN  /\ NoRepeats(fin)
            /\ Range(fin) = Range(all)
            /\ \A a, b \in 1..Len(fin) :
                  a < b => FirstIndex(all, fin[a]) < FirstIndex(all, fin[b])

\* C6 witness: duplicates were collapsed, and two rows with equal values but
\* different source files were both kept.
DeduplicationExactWitness ==
    /\ pc = "done"
    /\ results # << >>
    /\ Len(combined.rows) < Len(Concat(results).rows)
    /\ \E a, b \in 1..Len(combined.rows) :
          /\ combined.rows[a].vals = combined.rows[b].vals
          /\ combined.rows[a].source_file # combined.rows[b].source_file

\* the non-empty tables of a batch parsed from the start, in input order
ParsedTables(files) ==
    LET RECURSIVE walk(_)
        walk(k) ==
            IF k > Len(files) THEN << >>
            ELSE SelectSeq(TablesOf(files[k], 0).sheets, LAMBDA sh : ~IsEmpty(sh.df))
                 \o walk(k + 1)
    IN  walk(1)

NoColumnsGiven == ParseSearchColumns(search_cols_input) = << >>

\* C9 as stated: with no column list given, the search columns are those
\* detected in the first successfully parsed non-empty table among all the
\* files, and every matcher call uses them.
DetectionUsesFirstParsedTable ==
    /\ (pc \in { "loop", "done" } /\ Processing /\ NoColumnsGiven) =>
          search_columns =
             IF ParsedTables(uploaded_files) = << >> THEN << >>
             ELSE detect_surname_columns(
                      HeadRows(ParsedTables(uploaded_files)[1].df, PEEK_ROWS))
    /\ \A c \in 1..Len(calls) : calls[c].columns = search_columns

\* the sample the first file alone gives: its table (CSV) or its first
\* non-empty sheet, when it parses at the all-sheets level; else nothing
FirstFileSample(files) ==
    LET f == files[1]
        live == { k \in 1..Len(f.sheets) : Len(f.sheets[k].lines) > 1 }
    IN  IF f.health # "ok" \/ live = {} THEN EmptyDataFrame
        ELSE IF f.ext = "csv" THEN ParseTable(Take(f.sheets[1].lines, PEEK_ROWS + 1), FALSE)
        ELSE ParseTable(Take(f.sheets[Min(live)].lines, PEEK_ROWS + 1), TRUE)

\* C9 amended: with no column list given, the search columns are those
\* detected in the sample of the first file only (none when the first file
\* does not parse or holds no non-empty table, whatever the later files hold),
\* and every matcher call uses the search columns fixed before the loop.
DetectionUsesFirstFileOnly ==
    /\ (pc \in { "loop", "done" } /\ Processing /\ NoColumnsGiven) =>
          search_columns =
             IF IsEmpty(FirstFileSample(uploaded_files)) THEN << >>
             ELSE detect_surname_columns(FirstFileSample(uploaded_files))
    /\ \A c \in 1..Len(calls) : calls[c].columns = search_columns

\* C9 witness: no column list was given, the first of two files had a Surname
\* column, and both files were matched on it.
DetectionUsesFirstFileOnlyWitness ==
    /\ pc = "done"
    /\ NoColumnsGiven
    /\ Len(uploaded_files) = 2
    /\ uploaded_files[1].name = "book.xlsx"
    /\ search_columns = << Str(<< "S","u","r","n","a","m","e" >>) >>
    /\ \E a, b \in 1..Len(calls) : calls[a].file = 1 /\ calls[b].file = 2

\* C10: every parse attempt starts at the start of the stream, so the table a
\* matcher call is given is the file's table as parsed from the start.
EveryParseFromStart ==
    /\ \A p \in 1..Len(parses) : parses[p].start = 0
    /\ \A c \in 1..Len(calls) :
          \E sh \in Range(TablesOf(uploaded_files[calls[c].file], 0).sheets) :
              sh.name = calls[c].sheet_name /\ sh.df = calls[c].df

====
